---- MODULE Spec2Model ----
(***************************************************************************)
(* Diamond-difference SN transport calculators of src/calculator.py:       *)
(* boundary-condition resolution (_set_bcs), the 1-D and 2-D transport     *)
(* sweeps and the solve loops.                                             *)
(*                                                                         *)
(* Floating-point values are modelled as saturating fixed-point numbers    *)
(* with the IEEE specials, so that a division by an exactly-zero value is  *)
(* a visible outcome.  An RMS value sqrt(x) is carried as its square x;    *)
(* comparisons against eps are made on squares (RmsGt).                    *)
(*                                                                         *)
(* A loop body hands its result v to the rest of the loop f as             *)
(*   CHOOSE r \in {f(s) : s \in {v}} : TRUE,                                *)
(* which is f(v): v is computed once, before the rest of the loop starts.  *)
(***************************************************************************)
EXTENDS Integers, Sequences, FiniteSets, TLC

(* ---------------------------- bounds ----------------------------------- *)
MaxNx == 2
MaxGroups == 2
MaxIter == 3
MaxCalls == 2

(* --------------------------- float model ------------------------------- *)
(* A float is an integer count of 1/Scale units, |count| <= Cap; PInf,     *)
(* NInf and NaN are the IEEE specials.  Every operation rounds to the      *)
(* nearest unit and overflows to an infinity.                              *)
Scale == 2 ^ 4
Cap == 2 ^ 15 - 1
PInf == Cap + 1
NInf == -PInf
NaN == PInf + 1

Abs(x) == IF x < 0 THEN -x ELSE x

Sign(x) == IF x < 0 THEN -1 ELSE IF x = 0 THEN 0 ELSE 1

IsNaN(a) == a = NaN
IsInf(a) == a = PInf \/ a = NInf

(* overflow to infinity *)
Sat(x) == IF x > Cap THEN PInf ELSE IF x < -Cap THEN NInf ELSE x

(* x / y rounded to the nearest integer, y # 0 *)
RoundDiv(x, y) == Sign(x) * Sign(y) * ((2 * Abs(x) + Abs(y)) \div (2 * Abs(y)))

SignedInf(s) == IF s < 0 THEN NInf ELSE PInf

R(n) == n * Scale
R0 == R(0)
R1 == R(1)
Half == Scale \div 2

RNeg(a) == IF IsNaN(a) THEN NaN ELSE -a

RAdd(a, b) ==
  IF IsNaN(a) \/ IsNaN(b) THEN NaN
  ELSE IF IsInf(a) THEN (IF IsInf(b) /\ b # a THEN NaN ELSE a)
  ELSE IF IsInf(b) THEN b
  ELSE Sat(a + b)

RSub(a, b) == RAdd(a, RNeg(b))

RMul(a, b) ==
  IF IsNaN(a) \/ IsNaN(b) THEN NaN
  ELSE IF IsInf(a) \/ IsInf(b)
    THEN (IF a = 0 \/ b = 0 THEN NaN ELSE SignedInf(Sign(a) * Sign(b)))
  ELSE Sat(RoundDiv(a * b, Scale))

RDiv(a, b) ==
  IF IsNaN(a) \/ IsNaN(b) THEN NaN
  ELSE IF IsInf(a) THEN (IF IsInf(b) THEN NaN
                         ELSE SignedInf(Sign(a) * (IF b < 0 THEN -1 ELSE 1)))
  ELSE IF IsInf(b) THEN 0
  ELSE IF b = 0 THEN (IF a = 0 THEN NaN ELSE SignedInf(Sign(a)))
  ELSE Sat(RoundDiv(a * Scale, b))

RAbs(a) == IF IsNaN(a) THEN NaN ELSE Abs(a)
RSq(a) == RMul(a, a)

RLt(a, b) == ~IsNaN(a) /\ ~IsNaN(b) /\ a < b
RGt(a, b) == RLt(b, a)
RLe(a, b) == ~IsNaN(a) /\ ~IsNaN(b) /\ a <= b

(* np.sqrt(x2) > eps, decided on the square x2 >= 0 *)
RmsGt(x2, eps) == ~IsNaN(x2) /\ (RLt(eps, R0) \/ RGt(x2, RSq(eps)))

(* np.sqrt(x2) <= eps, decided on the square *)
RmsLe(x2, eps) == ~IsNaN(x2) /\ ~RLt(eps, R0) /\ RLe(x2, RSq(eps))

(* Python truthiness of a number (None is carried as 0) *)
Truthy(k) == k # R0

RECURSIVE SumOver(_, _)
SumOver(f, S) ==
  IF S = {} THEN R0
  ELSE LET x == CHOOSE y \in S : TRUE IN RAdd(f[x], SumOver(f, S \ {x}))

(* --------------------------- quadrature -------------------------------- *)
(* directions per hemisphere (1-D) and per quadrant (2-D) *)
N2 == 1
npq == 1

N == 2 * N2
Nflux == 4 * npq

(* |direction cosine| and weight of the p-th direction of a hemisphere/quadrant *)
MuOf(p) == Half
WeightOf(p) == R1

mus(n) == IF n < N2 THEN MuOf(n) ELSE RNeg(MuOf(n - N2))
weights(n) == WeightOf(n % N2)
muxs(p) == MuOf(p)
muys(p) == MuOf(p)
weights2(p) == WeightOf(p)

(* 1-D mirror direction *)
reflect_angle(n) == N - 1 - n

(* 2-D mirror direction: quadrant blocks are 0:(+x,-y) 1:(+x,+y) 2:(-x,-y) 3:(-x,+y) *)
reflect_angle2(n, edge) ==
  LET blk == n \div npq
      p == n % npq
      nb == IF edge \in {"west", "east"}
            THEN (blk + 2) % 4
            ELSE (IF blk % 2 = 0 THEN blk + 1 ELSE blk - 1)
  IN  nb * npq + p

(* ------------------------------ labels --------------------------------- *)
BOUNDARY_CONDITIONS == {"vacuum", "reflective", "periodic"}

(* labels a caller may pass; "white" stands for any unknown label *)
Labels == BOUNDARY_CONDITIONS \cup {"white"}

SrcPatterns == {"zero", "ramp"}
FissionKinds == {"fissile", "none_scalar", "none_indexable"}
(* the falsy "no fission" value returned by the mesh *)
NoFission == << >>

VARIABLES
  dim,            \* 1 or 2: which calculator class is used
  nx, ny, groups, \* mesh.nx, mesh.ny, mesh.groups
  srcpat,         \* fixed-source pattern of the mesh nodes
  sigS,           \* in-group scattering ratio of the mesh material
  fiskind,        \* whether the mesh material fissions
  flux0,          \* the uniform scalar flux the mesh was built with
  flux, psi,      \* mesh.flux, mesh.psi
  psiy,           \* history: y-face flux that last left the mesh at column i along n
  pc,             \* "new", "failed", "ready", "inner", "done", "raised"
  raised,         \* exception raised by the last operation, or "none"
  bcs,            \* the labels the constructor was called with
  accessors,      \* labels bound to _get_psi_west, _get_psi_east[, north, south]
  k, fission_source, scatter_source, accelerator,
  fs,             \* solve's local: fission source returned by the last sweep
  eps, maxiter, inner_count, outer_count, fsdiff, kdiff, fluxdiff, result,
  calls,          \* number of direct transport_sweep calls made
  obs             \* observations of the last sweep / solve (history record)

vars == <<dim, nx, ny, groups, srcpat, sigS, fiskind, flux0, flux, psi, psiy, pc, raised,
          bcs, accessors, k, fission_source, scatter_source, accelerator, fs,
          eps, maxiter, inner_count, outer_count, fsdiff, kdiff, fluxdiff,
          result, calls, obs>>

meshvars == <<dim, nx, ny, groups, srcpat, sigS, fiskind, flux0>>
solvevars == <<fs, eps, maxiter, inner_count, outer_count, fsdiff, kdiff, fluxdiff, result>>

(* ------------------------------- mesh ---------------------------------- *)
Groups == 0 .. groups - 1

FluxIdx(d, mx, my, G) ==
  IF d = 1 THEN (0 .. mx - 1) \X (0 .. G - 1)
  ELSE (0 .. mx - 1) \X (0 .. my - 1) \X (0 .. G - 1)

PsiIdx(d, mx, my, G) ==
  IF d = 1 THEN (0 .. mx) \X (0 .. N - 1) \X (0 .. G - 1)
  ELSE (0 .. mx) \X (0 .. my - 1) \X (0 .. Nflux - 1) \X (0 .. G - 1)

(* node.source, node.dx, node.dy, node.sigma_tr[g] *)
NodeSource(c) ==
  CASE srcpat = "zero" -> R0
    [] OTHER -> IF dim = 1 THEN R(c + 1) ELSE R(c[1] + 2 * c[2] + 1)

NodeDx(c) == R1
NodeDy(c) == R1
SigmaTr(c, g) == IF dim = 1 THEN R(2 ^ (g + 2) - 1) ELSE R(2 ^ (g + 2) - 2)

(* mesh.calculate_scatter_source() on flux array f *)
calculate_scatter_source(f) == [x \in DOMAIN f |-> RMul(sigS, f[x])]

(* mesh.calculate_fission_source() on flux array f: all neutrons born in group 0 *)
calculate_fission_source(f) ==
  IF fiskind # "fissile" THEN NoFission
  ELSE [x \in DOMAIN f |->
          LET g == x[Len(x)]
              cell == SubSeq(x, 1, Len(x) - 1)
          IN  IF g # 0 THEN R0
              ELSE SumOver([h \in Groups |-> f[cell \o <<h>>]], Groups)]

(* truth value of a fission source array / sentinel *)
HasFission(arr) == DOMAIN arr # {}

(* --------------------- boundary-condition resolver --------------------- *)
(* _set_bcs without the test of the north/south pair *)
_set_bcs_no_ns_check(labels) ==
  LET nd == Len(labels) \div 2
  IN  IF \E i \in 1 .. Len(labels) : labels[i] \notin BOUNDARY_CONDITIONS
        THEN [raised |-> "AssertionError", acc |-> <<>>]
      ELSE IF "periodic" \in {labels[1], labels[2]} /\ labels[1] # labels[2]
        THEN [raised |-> "TypeError", acc |-> <<>>]
      ELSE IF nd \in {1, 2}
        THEN [raised |-> "none", acc |-> labels]
      ELSE [raised |-> "NotImplementedError", acc |-> <<>>]

(* _set_bcs: the exception it raises, or the labels its accessors are bound to *)
_set_bcs(labels) ==
  LET nd == Len(labels) \div 2
      wc == labels[1]
      ec == labels[2]
      nc == labels[3]
      sc == labels[4]
  IN  IF \E i \in 1 .. Len(labels) : labels[i] \notin BOUNDARY_CONDITIONS
        THEN [raised |-> "AssertionError", acc |-> <<>>]
      ELSE IF "periodic" \in {wc, ec} /\ wc # ec
        THEN [raised |-> "TypeError", acc |-> <<>>]
      ELSE IF nd = 1
        THEN [raised |-> "none", acc |-> <<wc, ec>>]
      ELSE IF "periodic" \in {nc, sc} /\ nc # sc
        THEN [raised |-> "TypeError", acc |-> <<>>]
      ELSE IF nd = 2
        THEN [raised |-> "none", acc |-> <<wc, ec, nc, sc>>]
      ELSE [raised |-> "NotImplementedError", acc |-> <<>>]

(* 1-D accessors, reading the angular flux array p *)
get_west(p, n, g) ==
  CASE accessors[1] = "periodic" -> p[<<nx, n, g>>]
    [] accessors[1] = "reflective" -> p[<<0, reflect_angle(n), g>>]
    [] OTHER -> R0

get_east(p, n, g) ==
  CASE accessors[2] = "periodic" -> p[<<0, n, g>>]
    [] accessors[2] = "reflective" -> p[<<nx, reflect_angle(n), g>>]
    [] OTHER -> R0

(* 2-D accessors *)
get_west2(p, j, n, g) ==
  CASE accessors[1] = "periodic" -> p[<<nx, j, n, g>>]
    [] accessors[1] = "reflective" -> p[<<0, j, reflect_angle2(n, "west"), g>>]
    [] OTHER -> R0

get_east2(p, j, n, g) ==
  CASE accessors[2] = "periodic" -> p[<<0, j, n, g>>]
    [] accessors[2] = "reflective" -> p[<<nx, j, reflect_angle2(n, "east"), g>>]
    [] OTHER -> R0

get_north(p, i, n, g) ==
  CASE accessors[3] = "periodic" -> p[<<i, ny - 1, n, g>>]
    [] accessors[3] = "reflective" -> p[<<i, 0, reflect_angle2(n, "north"), g>>]
    [] OTHER -> R0

get_south(p, i, n, g) ==
  CASE accessors[4] = "periodic" -> p[<<i, 0, n, g>>]
    [] accessors[4] = "reflective" -> p[<<i, ny - 1, reflect_angle2(n, "south"), g>>]
    [] OTHER -> R0

(* ----------------------------- 1-D sweep ------------------------------- *)
(* Python's != on floats *)
PyNe(a, b) == IsNaN(a) \/ IsNaN(b) \/ a # b

(* self.fission_source[idx]; an indexable "no fission" value reads as 0 *)
FsAt(idx) == IF HasFission(fission_source) THEN fission_source[idx] ELSE R0

(* the subscript in _get_source raises when the "no fission" value is a scalar *)
SourceRaises(kk) ==
  Truthy(kk) /\ ~HasFission(fission_source) /\ fiskind = "none_scalar"

(* _get_source adding 0.5 to the scatter source instead of scaling it *)
_get_source_plus_half(i, g, kk) ==
  LET source == RAdd(NodeSource(i), RAdd(Half, scatter_source[<<i, g>>]))
  IN  IF Truthy(kk)
      THEN RAdd(source, RDiv(RMul(Half, FsAt(<<i, g>>)), kk))
      ELSE source

(* DiamondDifferenceCalculator1D._get_source(i, g, k) *)
_get_source(i, g, kk) ==
  LET source == RAdd(NodeSource(i), RMul(Half, scatter_source[<<i, g>>]))
  IN  IF Truthy(kk)
      THEN RAdd(source, RDiv(RMul(Half, FsAt(<<i, g>>)), kk))
      ELSE source

(* the diamond-difference recurrence on node c with source term q *)
DiamondStep(psi_in, mu, c, g, q) ==
  LET recurrence(dxs, twomu) ==
        RDiv(RAdd(RMul(psi_in, RSub(twomu, dxs)), RMul(RMul(R(2), NodeDx(c)), q)),
             RAdd(twomu, dxs))
  IN  recurrence(RMul(NodeDx(c), SigmaTr(c, g)), RMul(R(2), mu))

(* self.mesh.psi[i, n] = v : groups h, h+1, .. of face i, direction n *)
RECURSIVE WriteFaceDir(_, _, _, _, _)
WriteFaceDir(p, i, n, v, h) ==
  IF h = groups THEN p
  ELSE WriteFaceDir([p EXCEPT ![<<i, n, h>>] = v], i, n, v, h + 1)

(* the forward i loop: face i receives the flux that enters cell i, which *)
(* is psi_in for face 0 and the psi_out of cell i-1 for the faces after it *)
RECURSIVE ForwardCells(_, _, _, _, _, _)
ForwardCells(p, n, g, kk, i, psi_in) ==
  CHOOSE r \in
    {IF i = nx THEN p1
     ELSE ForwardCells(p1, n, g, kk, i + 1,
                       DiamondStep(psi_in, RAbs(mus(n)), i, g, _get_source(i, g, kk)))
       : p1 \in {WriteFaceDir(p, i, n, psi_in, 0)}} : TRUE

RECURSIVE ForwardSweep(_, _, _, _)
ForwardSweep(p, g, kk, n) ==
  IF n = N2 THEN p
  ELSE CHOOSE r \in
         {ForwardSweep(p1, g, kk, n + 1)
            : p1 \in {ForwardCells(p, n, g, kk, 0, get_west(p, n, g))}} : TRUE

(* index of the cell whose source the backward sweep uses at step i *)
BackwardSourceCell(i) == i

(* the backward i loop: face nx-i receives the flux that enters node nx-1-i, *)
(* which is psi_in for face nx and the psi_out of the step before after it   *)
RECURSIVE BackwardCells(_, _, _, _, _, _)
BackwardCells(p, n, g, kk, i, psi_in) ==
  CHOOSE r \in
    {IF i = nx THEN p1
     ELSE BackwardCells(p1, n, g, kk, i + 1,
                        DiamondStep(psi_in, RAbs(mus(n)), nx - 1 - i, g,
                                    _get_source(BackwardSourceCell(i), g, kk)))
       : p1 \in {[p EXCEPT ![<<nx - i, n, g>>] = psi_in]}} : TRUE

RECURSIVE BackwardSweep(_, _, _, _)
BackwardSweep(p, g, kk, n) ==
  IF n = N THEN p
  ELSE CHOOSE r \in
         {BackwardSweep(p1, g, kk, n + 1)
            : p1 \in {BackwardCells(p, n, g, kk, 0, get_east(p, n, g))}} : TRUE

(* scalar flux of cell i, group g from the angular fluxes p *)
ScalarFlux1D(p, i, g) ==
  SumOver([n \in 0 .. N - 1 |->
             RDiv(RMul(weights(n), RAdd(p[<<i + 1, n, g>>], p[<<i, n, g>>])), R(2))],
          0 .. N - 1)

(* the scalar flux loop of group g over cells i, i+1, .. *)
RECURSIVE UpdateFlux1D(_, _, _, _)
UpdateFlux1D(f, p, g, i) ==
  IF i = nx THEN f
  ELSE UpdateFlux1D([f EXCEPT ![<<i, g>>] = ScalarFlux1D(p, i, g)], p, g, i + 1)

(* the body of the group loop for group g: [psi, flux] after it *)
GroupWork1D(p, f, g, kk) ==
  CHOOSE r \in
    {[psi |-> p2, flux |-> UpdateFlux1D(f, p2, g, 0)]
       : p2 \in {BackwardSweep(ForwardSweep(p, g, kk, 0), g, kk, N2)}} : TRUE

(* entries of another group changed by group g's work *)
ForeignWrites(before, after, g) ==
  {x \in DOMAIN before.psi : x[3] # g /\ after.psi[x] # before.psi[x]}
  \cup {x \in DOMAIN before.flux : x[2] # g /\ after.flux[x] # before.flux[x]}

RECURSIVE GroupLoop1D(_, _, _)
GroupLoop1D(st, g, kk) ==
  IF g = groups THEN st
  ELSE CHOOSE r \in
         {GroupLoop1D([psi |-> nxt.psi, flux |-> nxt.flux,
                       foreign |-> st.foreign \/ ForeignWrites(st, nxt, g) # {}],
                      g + 1, kk)
            : nxt \in {GroupWork1D(st.psi, st.flux, g, kk)}} : TRUE

(* one term of the relative squared difference, as the code evaluates it *)
RelSq(new, old) == RSq(RDiv(RSub(new, old), new))

(* sum of ((new-old)/new)^2 over the elements where new != old *)
SqDiff1D(new, old) ==
  SumOver([x \in DOMAIN new |->
             IF PyNe(new[x], old[x]) THEN RelSq(new[x], old[x]) ELSE R0],
          DOMAIN new)

(* some evaluated term divides by a new value that is exactly zero *)
DividesByZero1D(new, old) ==
  \E x \in DOMAIN new : PyNe(new[x], old[x]) /\ new[x] = R0

(* DiamondDifferenceCalculator1D.transport_sweep(k), when no subscript raises *)
transport_sweep(kk) ==
  LET has == HasFission(fission_source)
      norms(st, fs_new) ==
        [psi |-> st.psi, flux |-> st.flux, foreign |-> st.foreign,
         fs_new |-> fs_new,
         rms_fs |-> IF has THEN RDiv(SqDiff1D(fs_new, fission_source), R(nx)) ELSE R0,
         rms_flux |-> RDiv(SqDiff1D(st.flux, flux), R(nx)),
         divzero |-> DividesByZero1D(st.flux, flux)
                     \/ (has /\ DividesByZero1D(fs_new, fission_source))]
      sources(st) ==
        norms(st, IF has THEN calculate_fission_source(st.flux) ELSE NoFission)
  IN  sources(GroupLoop1D([psi |-> psi, flux |-> flux, foreign |-> FALSE], 0, kk))

(* the angular flux left behind when the first _get_source call raises *)
PsiAtRaise1D == WriteFaceDir(psi, 0, 0, get_west(psi, 0, 0), 0)

(* ----------------------------- 2-D sweep ------------------------------- *)
(* DiamondDifferenceCalculator2D._get_source(i, j, g, k): k is ignored *)
_get_source2(i, j, g, kk) ==
  RAdd(NodeSource(<<i, j>>), RMul(Half, scatter_source[<<i, j, g>>]))

(* cell balance: [bar, out_x, out_y] *)
Balance2D(i, j, g, n, kk, psi_in_x, psi_in_y) ==
  LET out(psi_bar) ==
        [out_x |-> RSub(RMul(R(2), psi_bar), psi_in_x),
         out_y |-> RSub(RMul(R(2), psi_bar), psi_in_y)]
      bar(xcoeff, ycoeff) ==
        out(RDiv(RAdd(_get_source2(i, j, g, kk),
                      RAdd(RMul(xcoeff, psi_in_x), RMul(ycoeff, psi_in_y))),
                 RAdd(SigmaTr(<<i, j>>, g), RAdd(xcoeff, ycoeff))))
  IN  bar(RDiv(RMul(R(2), RAbs(muxs(n % npq))), NodeDx(<<i, j>>)),
          RDiv(RMul(R(2), RAbs(muys(n % npq))), NodeDy(<<i, j>>)))

(* the value a north/south accessor is meant to return: a y-face flux *)
ExpectedNS(py, label, edge, i, n, g) ==
  CASE label = "periodic" -> py[<<i, n, g>>]
    [] label = "reflective" -> py[<<i, reflect_angle2(n, edge), g>>]
    [] OTHER -> R0

(* the j loop of one column; step t visits row t (yfwd) or ny-1-t *)
RECURSIVE Column2D(_, _, _, _, _, _, _, _, _)
Column2D(st, i, n, g, kk, xfwd, yfwd, t, psi_in_y) ==
  IF t = ny THEN [st EXCEPT !.psiy[<<i, n, g>>] = psi_in_y]
  ELSE LET j == IF yfwd THEN t ELSE ny - 1 - t
           inface == IF xfwd THEN i ELSE i + 1
           outface == IF xfwd THEN i + 1 ELSE i
       IN  CHOOSE r \in
             {Column2D([st EXCEPT !.psi[<<outface, j, n, g>>] = b.out_x],
                       i, n, g, kk, xfwd, yfwd, t + 1, b.out_y)
                : b \in {Balance2D(i, j, g, n, kk,
                                   st.psi[<<inface, j, n, g>>], psi_in_y)}} : TRUE

(* the i loop of one direction; step t visits column t (xfwd) or nx-1-t *)
RECURSIVE Columns2D(_, _, _, _, _, _, _)
Columns2D(st, n, g, kk, xfwd, yfwd, t) ==
  IF t = nx THEN st
  ELSE LET i == IF xfwd THEN t ELSE nx - 1 - t
           psi_in_y == IF yfwd THEN get_north(st.psi, i, n, g)
                       ELSE get_south(st.psi, i, n, g)
           want == IF yfwd THEN ExpectedNS(st.psiy, accessors[3], "north", i, n, g)
                   ELSE ExpectedNS(st.psiy, accessors[4], "south", i, n, g)
           st1 == [st EXCEPT !.nsbad = st.nsbad \/ psi_in_y # want]
       IN  CHOOSE r \in
             {Columns2D(s2, n, g, kk, xfwd, yfwd, t + 1)
                : s2 \in {Column2D(st1, i, n, g, kk, xfwd, yfwd, 0, psi_in_y)}} : TRUE

(* self.mesh.psi[face, :, n, g] = seed : rows j, j+1, .. *)
RECURSIVE WriteFaceColumn(_, _, _, _, _, _)
WriteFaceColumn(p, face, n, g, seed, j) ==
  IF j = ny THEN p
  ELSE WriteFaceColumn([p EXCEPT ![<<face, j, n, g>>] = seed[j]],
                       face, n, g, seed, j + 1)

(* one direction of a quadrant pass: seed the west or east face, then sweep.  *)
(* The seed array is built from the angular flux as it is before the write.  *)
Direction2D(st, n, g, kk, xfwd, yfwd) ==
  CHOOSE r \in
    {Columns2D([st EXCEPT !.psi = p1], n, g, kk, xfwd, yfwd, 0)
       : p1 \in {WriteFaceColumn(st.psi, IF xfwd THEN 0 ELSE nx, n, g,
                                 [j \in 0 .. ny - 1 |->
                                    IF xfwd THEN get_west2(st.psi, j, n, g)
                                    ELSE get_east2(st.psi, j, n, g)],
                                 0)}} : TRUE

(* directions lo .. hi-1 of one quadrant pass *)
RECURSIVE Pass2D(_, _, _, _, _, _, _)
Pass2D(st, g, kk, xfwd, yfwd, n, hi) ==
  IF n >= hi THEN st
  ELSE CHOOSE r \in
         {Pass2D(s2, g, kk, xfwd, yfwd, n + 1, hi)
            : s2 \in {Direction2D(st, n, g, kk, xfwd, yfwd)}} : TRUE

ScalarFlux2D(p, i, j, g) ==
  SumOver([n \in 0 .. Nflux - 1 |->
             RDiv(RMul(weights2(n % npq),
                       RAdd(p[<<i, j, n, g>>], p[<<i + 1, j, n, g>>])), R(2))],
          0 .. Nflux - 1)

(* the scalar flux loop of group g over cells t, t+1, .. in row-major order *)
RECURSIVE UpdateFlux2D(_, _, _, _)
UpdateFlux2D(f, p, g, t) ==
  IF t = nx * ny THEN f
  ELSE UpdateFlux2D([f EXCEPT ![<<t \div ny, t % ny, g>>] =
                                ScalarFlux2D(p, t \div ny, t % ny, g)],
                    p, g, t + 1)

(* the body of the 2-D group loop, passes in the order the code runs them *)
GroupWork2D(st, g, kk) ==
  CHOOSE r \in
    {[s4 EXCEPT !.flux = UpdateFlux2D(st.flux, s4.psi, g, 0)]
       : s4 \in {Pass2D(Pass2D(Pass2D(Pass2D(st, g, kk, TRUE, TRUE, 0, npq),
                                      g, kk, FALSE, TRUE, 2 * npq, 3 * npq),
                               g, kk, TRUE, FALSE, npq, 2 * npq),
                        g, kk, FALSE, FALSE, 3 * npq, Nflux)}} : TRUE

RECURSIVE GroupLoop2D(_, _, _)
GroupLoop2D(st, g, kk) ==
  IF g = groups THEN st
  ELSE CHOOSE r \in
         {GroupLoop2D(s2, g + 1, kk) : s2 \in {GroupWork2D(st, g, kk)}} : TRUE

(* DiamondDifferenceCalculator2D.l2norm2d, as the square of the rms *)
l2norm2d(new_array, old_array) ==
  LET diff == SumOver([x \in DOMAIN new_array |->
                         IF RGt(new_array[x], R0)
                         THEN RelSq(new_array[x], old_array[x]) ELSE R0],
                      DOMAIN new_array)
  IN  RDiv(RDiv(diff, R(nx)), R(nx))

(* DiamondDifferenceCalculator2D.transport_sweep(k) *)
transport_sweep2(kk) ==
  LET norms(st) ==
        [psi |-> st.psi, flux |-> st.flux, psiy |-> st.psiy, nsbad |-> st.nsbad,
         rms_flux |-> l2norm2d(st.flux, flux)]
  IN  norms(GroupLoop2D([psi |-> psi, flux |-> flux, psiy |-> psiy, nsbad |-> FALSE],
                        0, kk))

(* ------------------------------ actions -------------------------------- *)
(* default kguess of the constructors *)
kguess == R1

(* correction ratios an accelerator's prolong may apply to the fine flux *)
AccFactors == {R1, R(2)}

(* the accelerator argument: None, or an accelerator with its correction ratio *)
NoAccelerator == [present |-> FALSE, factor |-> R1]
Accelerators == {NoAccelerator} \cup {[present |-> TRUE, factor |-> f] : f \in AccFactors}

(* tolerances a caller passes to solve *)
EpsValues == {R0, R1}

NoObs == [op |-> "none", lastk |-> R0, divzero |-> FALSE, foreign |-> FALSE,
          fsread |-> FALSE, nsbad |-> FALSE, cycle |-> << >>, accel |-> FALSE,
          rms_flux |-> R0]

Init ==
  /\ dim \in {1, 2}
  /\ nx \in 1 .. MaxNx
  /\ ny \in IF dim = 1 THEN {1} ELSE 1 .. MaxNx
  /\ groups \in 1 .. MaxGroups
  /\ srcpat \in SrcPatterns
  /\ sigS \in IF dim = 1 THEN {R0, Half} ELSE {Half}
  /\ fiskind \in IF dim = 1 THEN FissionKinds ELSE {"none_scalar"}
  /\ flux0 \in {R0, R1}
  /\ flux = [x \in FluxIdx(dim, nx, ny, groups) |-> flux0]
  /\ psi = [x \in PsiIdx(dim, nx, ny, groups) |-> R0]
  /\ psiy = [x \in (0 .. nx - 1) \X (0 .. Nflux - 1) \X (0 .. groups - 1) |-> R0]
  /\ pc = "new"
  /\ raised = "none"
  /\ bcs = << >>
  /\ accessors = << >>
  /\ k = kguess
  /\ fission_source = NoFission
  /\ scatter_source = << >>
  /\ accelerator = NoAccelerator
  /\ fs = NoFission
  /\ eps = R0
  /\ maxiter = 1
  /\ inner_count = 0
  /\ outer_count = 0
  /\ fsdiff = R0
  /\ kdiff = R0
  /\ fluxdiff = R0
  /\ result = FALSE
  /\ calls = 0
  /\ obs = NoObs

(* DiamondDifferenceCalculator1D/2D.__init__(quad, mesh, bcs, kguess, accelerator) *)
Construct(labels, acc) ==
  /\ pc = "new"
  /\ Len(labels) = 2 * dim
  /\ dim = 2 => acc = NoAccelerator
  /\ bcs' = labels
  /\ \E r \in {_set_bcs(labels)} :
         /\ raised' = r.raised
         /\ accessors' = r.acc
         /\ pc' = IF r.raised = "none" THEN "ready" ELSE "failed"
  /\ k' = kguess
  /\ accelerator' = acc
  /\ fission_source' = calculate_fission_source(flux)
  /\ scatter_source' = calculate_scatter_source(flux)
  /\ obs' = [NoObs EXCEPT !.op = "ctor"]
  /\ UNCHANGED <<meshvars, flux, psi, psiy, solvevars, calls>>

(* a direct call of DiamondDifferenceCalculator1D.transport_sweep(k) *)
TransportSweep1D(kk) ==
  /\ pc = "ready"
  /\ dim = 1
  /\ calls < MaxCalls
  /\ calls' = calls + 1
  /\ IF SourceRaises(kk)
     THEN /\ psi' = PsiAtRaise1D
          /\ pc' = "raised"
          /\ raised' = "TypeError"
          /\ obs' = [obs EXCEPT !.op = "sweep", !.lastk = kk, !.fsread = TRUE]
          /\ UNCHANGED flux
     ELSE \E r \in {transport_sweep(kk)} :
              /\ psi' = r.psi
              /\ flux' = r.flux
              /\ obs' = [obs EXCEPT !.op = "sweep", !.lastk = kk,
                                    !.divzero = r.divzero, !.foreign = r.foreign,
                                    !.fsread = Truthy(kk) /\ ~HasFission(fission_source),
                                    !.rms_flux = r.rms_flux]
              /\ UNCHANGED <<pc, raised>>
  /\ UNCHANGED <<meshvars, psiy, bcs, accessors, k, fission_source, scatter_source,
                 accelerator, solvevars>>

(* a direct call of DiamondDifferenceCalculator2D.transport_sweep(k) *)
TransportSweep2D ==
  /\ pc = "ready"
  /\ dim = 2
  /\ calls < MaxCalls
  /\ calls' = calls + 1
  /\ \E r \in {transport_sweep2(R0)} :
         /\ psi' = r.psi
         /\ flux' = r.flux
         /\ psiy' = r.psiy
         /\ obs' = [obs EXCEPT !.op = "sweep", !.lastk = R0, !.nsbad = r.nsbad,
                               !.rms_flux = r.rms_flux]
  /\ UNCHANGED <<meshvars, pc, raised, bcs, accessors, k, fission_source, scatter_source,
                 accelerator, solvevars>>

(* ------------------------------ 1-D solve ------------------------------ *)
(* the test of solve's outer while loop *)
OuterContinues(fsd, kd, e) == RmsGt(fsd, e) \/ RGt(kd, e)

(* the cap test written with > instead of >= *)
CapReached_strict(count, m) == count > m

(* the cap test applied to both counters *)
CapReached(count, m) == count >= m

(* DiamondDifferenceCalculator1D.solve(eps, maxiter): up to the first inner test *)
Solve1D(e, m) ==
  /\ pc = "ready"
  /\ dim = 1
  /\ calls = 0
  /\ eps' = e
  /\ maxiter' = m
  /\ outer_count' = 0
  /\ inner_count' = 0
  /\ fluxdiff' = RSq(RAdd(e, R1))
  /\ IF HasFission(fission_source)
     THEN fsdiff' = RSq(RAdd(e, R1)) /\ kdiff' = RAdd(e, R1)
     ELSE fsdiff' = R0 /\ kdiff' = R0
  /\ pc' = "inner"
  /\ obs' = [obs EXCEPT !.op = "solve"]
  /\ UNCHANGED <<meshvars, flux, psi, psiy, raised, bcs, accessors, k, fission_source,
                 scatter_source, accelerator, fs, result, calls>>

(* accelerator.prolong(mesh): the corrected fine-mesh flux *)
prolong(f) == [x \in DOMAIN f |-> RMul(accelerator.factor, f[x])]

(* one iteration of the inner while loop: sweep, count, cap test, acceleration *)
InnerSweep1D ==
  /\ pc = "inner"
  /\ dim = 1
  /\ RmsGt(fluxdiff, eps)
  /\ IF SourceRaises(k)
     THEN /\ psi' = PsiAtRaise1D
          /\ pc' = "raised"
          /\ raised' = "TypeError"
          /\ obs' = [obs EXCEPT !.op = "sweep", !.lastk = k, !.fsread = TRUE]
          /\ UNCHANGED <<flux, fs, fsdiff, fluxdiff, inner_count, result>>
     ELSE \E r \in {transport_sweep(k)} :
          LET capped == CapReached(inner_count + 1, maxiter)
              accel == accelerator.present /\ ~capped
          IN  /\ psi' = r.psi
              /\ fs' = r.fs_new
              /\ fsdiff' = r.rms_fs
              /\ fluxdiff' = r.rms_flux
              /\ inner_count' = inner_count + 1
              /\ pc' = IF capped THEN "done" ELSE "inner"
              /\ result' = IF capped THEN FALSE ELSE result
              /\ flux' = IF accel THEN prolong(r.flux) ELSE r.flux
              /\ obs' = [obs EXCEPT !.op = "sweep", !.lastk = k,
                                    !.divzero = r.divzero, !.foreign = r.foreign,
                                    !.fsread = Truthy(k) /\ ~HasFission(fission_source),
                                    !.rms_flux = r.rms_flux,
                                    !.accel = accel,
                                    !.cycle = IF accel THEN <<"restrict", "prolong">>
                                              ELSE obs.cycle]
              /\ UNCHANGED raised
  /\ UNCHANGED <<meshvars, psiy, bcs, accessors, k, fission_source, scatter_source,
                 accelerator, eps, maxiter, outer_count, kdiff, calls>>

(* the rest of one outer iteration, after the inner loop has left *)
OuterUpdate1D ==
  /\ pc = "inner"
  /\ dim = 1
  /\ ~RmsGt(fluxdiff, eps)
  /\ \E has \in {HasFission(fission_source)},
        capped \in {CapReached(outer_count + 1, maxiter)} :
     \E k_new \in {IF has THEN RDiv(RMul(k, SumOver(fs, DOMAIN fs)),
                                    SumOver(fission_source, DOMAIN fission_source))
                    ELSE k},
        fsrc \in {IF has THEN fs ELSE fission_source} :
     \E kd \in {IF has THEN RDiv(RAbs(RSub(k_new, k)), k_new) ELSE kdiff} :
     \E again \in {~capped /\ OuterContinues(fsdiff, kd, eps)} :
         /\ scatter_source' = calculate_scatter_source(flux)
         /\ fission_source' = fsrc
         /\ k' = k_new
         /\ outer_count' = outer_count + 1
         /\ pc' = IF again THEN "inner" ELSE "done"
         /\ result' = IF capped THEN FALSE ELSE IF again THEN result ELSE TRUE
         /\ inner_count' = IF again THEN 0 ELSE inner_count
         /\ fluxdiff' = IF again THEN RSq(RAdd(eps, R1)) ELSE fluxdiff
         /\ fsdiff' = IF again /\ ~HasFission(fsrc) THEN R0 ELSE fsdiff
         /\ kdiff' = IF again /\ ~HasFission(fsrc) THEN R0 ELSE kd
  /\ obs' = [obs EXCEPT !.op = "outer", !.accel = FALSE]
  /\ UNCHANGED <<meshvars, flux, psi, psiy, raised, bcs, accessors, accelerator, fs,
                 eps, maxiter, calls>>

(* ------------------------------ 2-D solve ------------------------------ *)
(* DiamondDifferenceCalculator2D.solve(eps, maxiter): up to the first loop test *)
Solve2D(e, m) ==
  /\ pc = "ready"
  /\ dim = 2
  /\ calls = 0
  /\ eps' = e
  /\ maxiter' = m
  /\ inner_count' = 0
  /\ fluxdiff' = RSq(RAdd(e, R1))
  /\ pc' = "inner"
  /\ obs' = [obs EXCEPT !.op = "solve"]
  /\ UNCHANGED <<meshvars, flux, psi, psiy, raised, bcs, accessors, k, fission_source,
                 scatter_source, accelerator, fs, outer_count, fsdiff, kdiff,
                 result, calls>>

(* one iteration of the 2-D while loop, and the return when the loop leaves *)
InnerSweep2D ==
  /\ pc = "inner"
  /\ dim = 2
  /\ RmsGt(fluxdiff, eps)
  /\ \E r \in {transport_sweep2(k)} :
     LET capped == CapReached(inner_count + 1, maxiter)
         leaves == ~RmsGt(r.rms_flux, eps)
     IN  /\ psi' = r.psi
         /\ flux' = r.flux
         /\ psiy' = r.psiy
         /\ fluxdiff' = r.rms_flux
         /\ inner_count' = inner_count + 1
         /\ pc' = IF capped \/ leaves THEN "done" ELSE "inner"
         /\ result' = IF capped THEN FALSE ELSE IF leaves THEN TRUE ELSE result
         /\ obs' = [obs EXCEPT !.op = "sweep", !.lastk = k, !.nsbad = r.nsbad,
                               !.rms_flux = r.rms_flux]
  /\ UNCHANGED <<meshvars, raised, bcs, accessors, k, fission_source, scatter_source,
                 accelerator, fs, eps, maxiter, outer_count, fsdiff, kdiff, calls>>

Next ==
  \/ \E labels \in (Labels \X Labels) \cup (Labels \X Labels \X Labels \X Labels),
        acc \in Accelerators : Construct(labels, acc)
  \/ \E kk \in {R0, R1} : TransportSweep1D(kk)
  \/ TransportSweep2D
  \/ \E e \in EpsValues, m \in 1 .. MaxIter : Solve1D(e, m)
  \/ InnerSweep1D
  \/ OuterUpdate1D
  \/ \E e \in EpsValues, m \in 1 .. MaxIter : Solve2D(e, m)
  \/ InnerSweep2D

Spec == Init /\ [][Next]_vars

(* ============================== claims ================================= *)
ValidLabels == {"vacuum", "reflective", "periodic"}

OnePeriodic(a, b) == (a = "periodic") # (b = "periodic")

(* the label tuples the constructor has to reject *)
Rejected(labels) ==
  \/ \E i \in 1 .. Len(labels) : labels[i] \notin ValidLabels
  \/ OnePeriodic(labels[1], labels[2])
  \/ Len(labels) = 4 /\ OnePeriodic(labels[3], labels[4])

(* C1: construction fails with a configuration error exactly for the label   *)
(* tuples that hold an unknown label or a periodic label on one edge only of *)
(* an opposing pair; every other tuple yields one accessor per edge.         *)
C1_ConstructionValidation ==
  pc # "new" =>
    IF Rejected(bcs)
    THEN pc = "failed" /\ raised \in {"AssertionError", "TypeError"} /\ accessors = << >>
    ELSE pc # "failed" /\ Len(accessors) = Len(bcs) /\ accessors = bcs

C1_Witness ==
  /\ pc = "failed"
  /\ dim = 2
  /\ raised = "TypeError"
  /\ bcs[1] = "reflective" /\ bcs[2] = "vacuum"
  /\ bcs[3] = "vacuum" /\ bcs[4] = "periodic"

(* C2: 1-D solve returns False exactly when a cap was reached while the      *)
(* corresponding difference was still above eps, and True only when the flux *)
(* rms, the fission-source rms and kdiff are all at or below eps.            *)
C2_SolveResult ==
  (pc = "done" /\ dim = 1) =>
    /\ (result = FALSE) <=>
         \/ inner_count >= maxiter /\ RmsGt(fluxdiff, eps)
         \/ outer_count >= maxiter /\ (RmsGt(fsdiff, eps) \/ RGt(kdiff, eps))
    /\ result = TRUE =>
         RmsLe(fluxdiff, eps) /\ RmsLe(fsdiff, eps) /\ RLe(kdiff, eps)

(* the all-vacuum, source-free, flux-free problem *)
ZeroField ==
  /\ pc \notin {"new", "failed"}
  /\ \A e \in 1 .. Len(accessors) : accessors[e] = "vacuum"
  /\ srcpat = "zero"
  /\ flux0 = R0

(* C3: in the zero field every scalar and angular flux entry stays exactly   *)
(* zero and every sweep reports a flux rms difference of exactly zero.       *)
C3_ZeroField ==
  ZeroField =>
    /\ \A x \in DOMAIN flux : flux[x] = R0
    /\ \A x \in DOMAIN psi : psi[x] = R0
    /\ obs.rms_flux = R0
    /\ pc \in {"inner", "done"} /\ inner_count > 0 => fluxdiff = R0

C3_Witness ==
  /\ ZeroField
  /\ dim = 2
  /\ nx > 1 /\ ny > 1
  /\ calls >= 2
  /\ obs.op = "sweep"

(* C4: without a fission source 1-D solve never reads the fission source,    *)
(* runs exactly one outer iteration and leaves k at its initial value.       *)
C4_FixedSourceSolve ==
  (dim = 1 /\ pc \in {"inner", "done", "raised"} /\ obs.op # "solve"
     /\ calls = 0 /\ ~HasFission(fission_source)) =>
    /\ ~obs.fsread
    /\ raised = "none"
    /\ k = kguess
    /\ outer_count <= 1
    /\ (pc = "done" /\ result = TRUE) => outer_count = 1

(* C5: every acceleration cycle is restrict, solve, prolong in that order,   *)
(* and the fission source is recomputed from the corrected flux afterwards.  *)
C5_AccelerationCycle ==
  /\ obs.cycle \in {<< >>, <<"restrict", "solve", "prolong">>}
  /\ (obs.accel /\ HasFission(fission_source)) => fs = calculate_fission_source(flux)

(* what is left of the iteration budget of the running solve *)
Budget(m, outer, inner) == (m - outer) * (m + 1) + (m - inner)

(* C6: no inner loop runs more than maxiter sweeps, no solve more than       *)
(* maxiter outer iterations, and every step of a running solve uses up       *)
(* iteration budget, so every call ends.                                     *)
C6_SolveBounded ==
  [][ pc' \in {"inner", "done"} =>
        /\ inner_count' <= maxiter'
        /\ outer_count' <= maxiter'
        /\ (pc = "inner" /\ pc' = "inner") =>
             /\ Budget(maxiter', outer_count', inner_count')
                  < Budget(maxiter, outer_count, inner_count)
             /\ Budget(maxiter', outer_count', inner_count') > 0 ]_vars

C6_Witness ==
  /\ pc = "done"
  /\ dim = 1
  /\ result = FALSE
  /\ maxiter > 1
  /\ outer_count = maxiter

(* C7: the backward sweep applies the recurrence to every cell with that     *)
(* cell's own dx, sigma_tr and source term.                                  *)
C7_BackwardUsesOwnSource ==
  (dim = 1 /\ obs.op = "sweep" /\ pc # "raised") =>
    \A n \in N2 .. N - 1, g \in Groups, i \in 0 .. nx - 1 :
      psi[<<i, n, g>>] =
        DiamondStep(psi[<<i + 1, n, g>>], RAbs(mus(n)), i, g,
                    _get_source(i, g, obs.lastk))

(* C8: the work for group g leaves every entry of every other group          *)
(* unchanged.                                                                *)
C8_GroupFrame == ~obs.foreign

(* C9: no relative-rms term is evaluated with a new value that is exactly    *)
(* zero.                                                                     *)
C9_NoDivisionByZero == ~obs.divzero

(* C10: a north or south accessor of a reflective or periodic edge returns   *)
(* a flux that crossed a north/south face of its column.                     *)
C10_NorthSouthAccessors == ~obs.nsbad
====
